---- MODULE Spec2Model ----
(***************************************************************************)
(* Profiler Report and Query objects of rvbd/profiler/report.py, with the  *)
(* appliance they talk to.                                                 *)
(*                                                                         *)
(* One Report object and its Query objects are modelled together with the  *)
(* appliance's set of materialized reports.  A handler is one action,      *)
(* except wait_for_complete, whose polling loop takes one step per         *)
(* iteration so that the appliance can make progress between polls.        *)
(*                                                                         *)
(* Python values: an attribute that was never assigned is NoAttr, None is  *)
(* NoneId for the report id and "None" for strings; an optional list is    *)
(* None == <<>> or Some(list) == <<list>>.  An exception leaving a handler *)
(* is the handler's err, named after the Python exception class.           *)
(*                                                                         *)
(* Spec is the Report lifecycle, QSpec the data requests of one Query,     *)
(* NSpec the coercion of one row by Query._to_native, and WSpec the calls  *)
(* of WANSummaryReport.run, each call one action that includes its two     *)
(* sub-reports.                                                            *)
(***************************************************************************)
EXTENDS Integers, Sequences, FiniteSets, TLC

\* ------------------------------------------------------------------ bounds
\* Remote reports the appliance is asked to create in one behaviour.
MaxReports == 2
\* Largest timeout budget handed to wait_for_complete, in clock ticks.
MaxTimeout == 2
\* Largest poll interval handed to wait_for_complete, in clock ticks.
MaxInterval == 1
\* Remote calls recorded per handler invocation (the record saturates).
MaxCalls == 3
\* Query objects one Report may hold.
MaxQueries == 2

\* ------------------------------------------------------------ Python values
NoAttr == -2
NoneId == -1
None == <<>>
Some(x) == <<x>>
Truthy(opt) == opt # None /\ opt[1] # <<>>

\* `not self.id`: None (and 0, which the appliance never assigns) is falsy.
not_id(i) == i = NoneId \/ i = 0

\* The record of remote calls of the running handler, saturating at MaxCalls.
Log(cs, c) == IF Len(cs) < MaxCalls THEN Append(cs, c) ELSE cs

\* ----------------------------------------------------------- resolutions
ValidResolutions == {"auto", "1min", "15min", "hour", "6hour", "day", "week", "month"}

RESOLUTION_MAP ==
    (60 :> "1min") @@ (900 :> "15min") @@ (3600 :> "hour") @@
    (21600 :> "6hour") @@ (86400 :> "day") @@ (604800 :> "week")

\* Resolution arguments tried: two of the names, a duration of the table, a
\* duration that is not in the table, and a string that is no duration.
ResolutionArgs == {"auto", "15min", "60s", "2min", "bogus"}

\* int(parse_timedelta(s).total_seconds()) of lines 209-210 for the duration
\* strings tried; -1 when the string is no duration and parse_timedelta
\* raises its ValueError.
parse_timedelta(s) ==
    CASE s = "60s" -> 60
      [] s = "2min" -> 120
      [] OTHER -> -1

\* Lines 207-214 for a resolution outside the list of names: the exception
\* that leaves run.  The lookup in RESOLUTION_MAP precedes the raise.
resolution_error(res) ==
    LET secs == parse_timedelta(res)
    IN  IF secs < 0 THEN "ValueError"
        ELSE IF secs \notin DOMAIN RESOLUTION_MAP THEN "KeyError"
        ELSE "ValueError"

\* ------------------------------------------------------ submission response
\* The Location header of the submission response for the report numbered n.
LocationKinds == {"ok", "missing", "nodigits", "otherpath"}

Location(kind, n) ==
    CASE kind = "ok" -> Some([path |-> "reporting/reports", digits |-> TRUE, num |-> n])
      [] kind = "nodigits" -> Some([path |-> "reporting/reports", digits |-> FALSE, num |-> n])
      [] kind = "otherpath" -> Some([path |-> "reports", digits |-> TRUE, num |-> n])
      [] OTHER -> None

\* re.match(".*reporting/reports/([0-9]+)$", location) finds a match.
location_match(loc) == loc.path = "reporting/reports" /\ loc.digits

\* ------------------------------------------------------------------ columns
ColumnNames == {"host", "bytes"}
ColumnId == ("host" :> 1) @@ ("bytes" :> 2)

\* profiler.get_columns(names): the descriptors, identified by their ids.
get_columns(names) == [i \in 1..Len(names) |-> ColumnId[names[i]]]
\* profiler.get_columns_by_ids(ids)
get_columns_by_ids(ids) == ids

\* Query.__init__: the fields the cache reads.
Query(qid, column_ids) ==
    [id |-> qid,
     selected_columns |-> IF Truthy(column_ids)
                          THEN Some(get_columns_by_ids(column_ids[1]))
                          ELSE None,
     data_selected_columns |-> None]

\* Query._get_querydata, lines 80-83: the columns the request resolves to.
resolve_request(q, columns) ==
    IF Truthy(columns) THEN Some(get_columns(columns[1]))
    ELSE IF q.selected_columns # None THEN q.selected_columns
    ELSE columns

\* Query._get_querydata, lines 86-87.
changed(q, columns) ==
    \/ q.data_selected_columns = None
    \/ q.data_selected_columns # resolve_request(q, columns)

\* Query._get_querydata, lines 96-100: the Query after the call.
get_querydata(q, columns) ==
    IF changed(q, columns)
    THEN [q EXCEPT !.data_selected_columns = resolve_request(q, columns)]
    ELSE q

VARIABLES
    id,             \* Report.id
    last_status,    \* Report.last_status
    resolution,     \* Report.resolution
    queries,        \* Report.queries
    pc,             \* "idle", or "wfc" inside wait_for_complete's loop
    complete,       \* wait_for_complete: complete
    elapsed,        \* wait_for_complete: time.clock() - start
    timeout,        \* wait_for_complete: timeout
    interval,       \* wait_for_complete: interval
    turn,           \* wait_for_complete: parity of the loop iterations made
    held,           \* appliance: reports it keeps materialized
    done,           \* appliance: reports whose status is completed
    nextId,         \* appliance: number of the next report it creates
    scope,          \* "none", "in" a with block, "out" after it
    scopeFirst,     \* appliance's nextId when the with block was entered
    reqs,           \* effective column selections of the last two data requests
    polled,         \* a remote status call was issued since the last run began
    native,         \* Query._to_native: the legend, the row and the outcome
    wan,            \* WANSummaryReport: its cache, columns and merged table
    sawCompleted,   \* a poll of this wait_for_complete call returned completed in budget
    lastOp,         \* the handler called last
    err,            \* the exception that left it, "none" if it returned
    ret,            \* what it returned
    calls           \* the remote calls it issued

reportVars == <<id, last_status, resolution, queries>>
frameVars == <<pc, complete, elapsed, timeout, interval, turn, sawCompleted>>
applianceVars == <<held, done, nextId>>
scopeVars == <<scope, scopeFirst>>
obsVars == <<lastOp, err, ret, calls>>
otherVars == <<native, wan>>
vars == <<reportVars, frameVars, applianceVars, scopeVars, reqs, polled, otherVars, obsVars>>

\* No row has been coerced; no WANSummaryReport is in use.
NoNative == <<>>
NoWan == <<>>

\* Report.__init__ assigns neither id nor last_status.
Init ==
    /\ id = NoAttr
    /\ last_status = "noattr"
    /\ resolution = "None"
    /\ queries = <<>>
    /\ pc = "idle"
    /\ complete = FALSE
    /\ elapsed = 0
    /\ timeout = 0
    /\ interval = 1
    /\ turn = 0
    /\ held = {}
    /\ done = {}
    /\ nextId = 1
    /\ scope = "none"
    /\ scopeFirst = 1
    /\ reqs = <<>>
    /\ polled = FALSE
    /\ native = NoNative
    /\ wan = NoWan
    /\ sawCompleted = FALSE
    /\ lastOp = "init"
    /\ err = "none"
    /\ ret = "None"
    /\ calls = <<>>

Obs(op, e, r, cs) ==
    /\ lastOp' = op
    /\ err' = e
    /\ ret' = r
    /\ calls' = cs

\* ---------------------------------------------------------------- appliance
\* get_report_status(id): the status of a report the appliance holds.
api_status(i) == IF i \in done THEN "completed" ELSE "running"

\* list_queries(report_id): one query per report, numbered like its report.
api_queries(i) == <<[id |-> i]>>

\* Whether the appliance holds report i.  A call that names a report it
\* does not hold is answered not_found, which the connection raises as an
\* HTTP error.
api_found(i) == i \in held

\* The appliance finishes computing a report it holds.
ApplianceProgress ==
    /\ \E i \in held \ done : done' = done \cup {i}
    /\ UNCHANGED <<reportVars, frameVars, held, nextId, scopeVars, reqs, polled, otherVars,
                   obsVars>>

\* ------------------------------------------------------ wait_for_complete
\* A loop condition that polls once more when the budget is just spent.
budget_left_inclusive(e, t) == e <= t

\* The loop condition of line 263.
budget_left(e, t) == e < t

\* The test of line 266 on the polled status.
is_completed(st) == st = "completed"

\* Entering wait_for_complete: lines 260-262.
wfc_enter(i, t) ==
    /\ pc' = "wfc"
    /\ complete' = FALSE
    /\ elapsed' = 0
    /\ timeout' = t
    /\ interval' = i
    /\ turn' = 0
    /\ sawCompleted' = FALSE

\* Report.status, as a value: the exception, the return value, whether the
\* remote call was made, and last_status afterwards.
status_result ==
    IF id = NoAttr
    THEN [err |-> "AttributeError", ret |-> "None", remote |-> FALSE, ls |-> last_status]
    ELSE IF not_id(id)
    THEN [err |-> "none", ret |-> "None", remote |-> FALSE, ls |-> last_status]
    ELSE IF ~api_found(id)
    THEN [err |-> "HTTPError", ret |-> "None", remote |-> TRUE, ls |-> last_status]
    ELSE [err |-> "none", ret |-> api_status(id), remote |-> TRUE, ls |-> api_status(id)]

\* The value a finished wait_for_complete hands to whoever called it: run
\* drops it (line 255).
wfc_return(c) == IF lastOp = "run" THEN "None" ELSE IF c THEN "True" ELSE "False"

\* Leaving wait_for_complete, by return or by exception; its frame is gone.
wfc_leave(e, c) ==
    /\ pc' = "idle"
    /\ complete' = c
    /\ err' = e
    /\ ret' = IF e = "none" THEN wfc_return(c) ELSE "None"
    /\ elapsed' = 0
    /\ timeout' = 0
    /\ interval' = 1
    /\ turn' = 0
    /\ UNCHANGED lastOp

\* Lines 278-283: the warning formats self.id with %d.
wfc_timed_out ==
    /\ UNCHANGED <<last_status, calls, sawCompleted, polled>>
    /\ IF id = NoAttr THEN wfc_leave("AttributeError", complete)
       ELSE IF id = NoneId THEN wfc_leave("TypeError", complete)
       ELSE wfc_leave("none", complete)

\* Lines 264-276: one poll, then the break or the sleep.  time.clock() is
\* processor time on some platforms and wall time on others: a sleep of
\* `interval` moves it by anything from nothing to the interval.
wfc_poll ==
    LET s == status_result
    IN  /\ last_status' = s.ls
        /\ polled' = (polled \/ s.remote)
        /\ calls' = IF s.remote THEN Log(calls, "status") ELSE calls
        /\ sawCompleted' = (sawCompleted \/ (s.remote /\ s.err = "none" /\
                                              s.ret = "completed" /\ elapsed < timeout))
        /\ IF s.err # "none"
           THEN wfc_leave(s.err, complete)
           ELSE IF s.ret = "None"
           THEN wfc_leave("TypeError", complete)
           ELSE IF is_completed(s.ret)
           THEN wfc_leave("none", TRUE)
           ELSE /\ \E d \in 0..interval : elapsed' = elapsed + d
                /\ turn' = 1 - turn
                /\ UNCHANGED <<pc, complete, timeout, interval, lastOp, err, ret>>

\* One iteration of wait_for_complete's loop, or its exit.
wfc_step ==
    /\ pc = "wfc"
    /\ IF budget_left(elapsed, timeout) THEN wfc_poll ELSE wfc_timed_out
    /\ UNCHANGED <<id, resolution, queries, applianceVars, scopeVars, reqs, otherVars>>

\* Report.wait_for_complete(interval, timeout), called by the user.
wait_for_complete(i, t) ==
    /\ pc = "idle"
    /\ wfc_enter(i, t)
    /\ Obs("wait_for_complete", "none", "None", <<>>)
    /\ UNCHANGED <<reportVars, applianceVars, scopeVars, reqs, polled, otherVars>>

\* ---------------------------------------------------------------- Report.run
\* Lines 242-255 after a successful POST: the appliance has created report
\* nextId and answered with the Location header of the given kind.
run_submitted(sync, loc) ==
    /\ held' = held \cup {nextId}
    /\ nextId' = nextId + 1
    /\ UNCHANGED <<done, scopeVars>>
    /\ IF loc = None
       THEN /\ id' = NoneId
            /\ Obs("run", "TypeError", "None", <<"submit">>)
            /\ UNCHANGED frameVars
       ELSE IF ~location_match(loc[1])
       THEN /\ id' = NoneId
            /\ Obs("run", "ValueError", "None", <<"submit">>)
            /\ UNCHANGED frameVars
       ELSE /\ id' = loc[1].num
            /\ Obs("run", "none", "None", <<"submit">>)
            /\ IF sync THEN wfc_enter(1, MaxTimeout) ELSE UNCHANGED frameVars

\* Report.run(template_id, timefilter, resolution, ..., sync).  With sync the
\* handler goes on in wait_for_complete(), whose default budget of 600 s with
\* an interval of 1 s is scaled to MaxTimeout ticks with an interval of 1.
run(res, kind, sync) ==
    /\ pc = "idle"
    /\ nextId <= MaxReports
    /\ queries' = <<>>
    /\ last_status' = "None"
    /\ polled' = FALSE
    /\ UNCHANGED <<reqs, otherVars>>
    /\ IF res \notin ValidResolutions
       THEN /\ id' = NoneId
            /\ Obs("run", resolution_error(res), "None", <<>>)
            /\ UNCHANGED <<resolution, frameVars, applianceVars, scopeVars>>
       ELSE /\ resolution' = res
            /\ run_submitted(sync, Location(kind, nextId))

\* ------------------------------------------------------------- Report.status
status ==
    /\ pc = "idle"
    /\ LET s == status_result
       IN  /\ last_status' = s.ls
           /\ polled' = (polled \/ s.remote)
           /\ Obs("status", s.err, s.ret,
                  IF s.remote THEN <<"status">> ELSE <<>>)
    /\ UNCHANGED <<id, resolution, queries, frameVars, applianceVars, scopeVars, reqs, otherVars>>

\* ------------------------------------------------------------- Report.delete
\* Lines 366-369.  Reading self.id raises AttributeError before the remote
\* call when the attribute was never assigned; the appliance answers
\* not_found for an id it does not hold, which the connection raises.
do_delete(op) ==
    IF id = NoAttr
    THEN /\ Obs(op, "none", "None", <<>>)
         /\ UNCHANGED applianceVars
    ELSE IF api_found(id)
    THEN /\ held' = held \ {id}
         /\ done' = done \ {id}
         /\ UNCHANGED nextId
         /\ Obs(op, "none", "None", <<"delete">>)
    ELSE /\ Obs(op, "HTTPError", "None", <<"delete">>)
         /\ UNCHANGED applianceVars

delete ==
    /\ pc = "idle"
    /\ do_delete("delete")
    /\ UNCHANGED <<reportVars, frameVars, scopeVars, reqs, polled, otherVars>>

\* Report.__enter__
enter ==
    /\ pc = "idle"
    /\ scope = "none"
    /\ scope' = "in"
    /\ scopeFirst' = nextId
    /\ Obs("enter", "none", "self", <<>>)
    /\ UNCHANGED <<reportVars, frameVars, applianceVars, reqs, polled, otherVars>>

\* Report.__exit__: every way out of the with block, whatever the last
\* handler inside it did.
exit ==
    /\ pc = "idle"
    /\ scope = "in"
    /\ scope' = "out"
    /\ do_delete("exit")
    /\ UNCHANGED <<reportVars, frameVars, scopeFirst, reqs, polled, otherVars>>

\* ------------------------------------------------------------- Report queries
\* Report._load_queries(column_ids), lines 305-311, as a value: the
\* exception, the query list afterwards and the remote calls made.
load_queries_result(qs, column_ids) ==
    IF id = NoAttr
    THEN [err |-> "AttributeError", queries |-> qs, calls |-> <<>>]
    ELSE IF not_id(id)
    THEN [err |-> "ValueError", queries |-> qs, calls |-> <<>>]
    ELSE IF ~api_found(id)
    THEN [err |-> "HTTPError", queries |-> qs, calls |-> <<"queries">>]
    ELSE [err |-> "none",
          queries |-> qs \o [k \in 1..Len(api_queries(id)) |->
                                Query(api_queries(id)[k].id, column_ids)],
          calls |-> <<"queries">>]

\* Report.get_query_by_index(index), lines 320-332, as a value.
get_query_by_index(index) ==
    IF id = NoAttr
    THEN [err |-> "AttributeError", queries |-> queries, calls |-> <<>>]
    ELSE IF not_id(id)
    THEN [err |-> "ValueError", queries |-> queries, calls |-> <<>>]
    ELSE LET l == IF Len(queries) = 0
                  THEN load_queries_result(queries, None)
                  ELSE [err |-> "none", queries |-> queries, calls |-> <<>>]
         IN  IF l.err = "none" /\ index + 1 > Len(l.queries)
             THEN [l EXCEPT !.err = "IndexError"]
             ELSE l

\* Report._load_queries(column_ids), called directly.
load_queries(column_ids) ==
    /\ pc = "idle"
    /\ Len(queries) < MaxQueries
    /\ LET l == load_queries_result(queries, column_ids)
       IN  /\ queries' = l.queries
           /\ Obs("load_queries", l.err, "None", l.calls)
    /\ UNCHANGED <<id, last_status, resolution, frameVars, applianceVars,
                   scopeVars, reqs, polled, otherVars>>

\* Report.get_legend(index, columns): the Query answers from its columns.
get_legend(index, columns) ==
    /\ pc = "idle"
    /\ LET g == get_query_by_index(index)
       IN  /\ queries' = g.queries
           /\ Obs("get_legend", g.err, IF g.err = "none" THEN "legend" ELSE "None", g.calls)
    /\ UNCHANGED <<id, last_status, resolution, frameVars, applianceVars,
                   scopeVars, reqs, polled, otherVars>>

\* Query.get_data / get_iterdata / get_totals (columns) on query q of a
\* Report whose remote report may be gone: the exception, the Query
\* afterwards and the remote calls made.
query_data_result(q, columns) ==
    IF ~changed(q, columns)
    THEN [err |-> "none", query |-> q, calls |-> <<>>]
    ELSE IF ~api_found(id)
    THEN [err |-> "HTTPError", query |-> q, calls |-> <<"querydata">>]
    ELSE [err |-> "none", query |-> get_querydata(q, columns), calls |-> <<"querydata">>]

\* Report.get_data(index, columns).  Report.get_iterdata and get_totals run
\* the same lines (get_query_by_index, then the Query's _get_querydata); the
\* rows of get_iterdata are taken to be consumed by the caller.
get_data(index, columns) ==
    /\ pc = "idle"
    /\ LET g == get_query_by_index(index)
       IN  IF g.err # "none"
           THEN /\ queries' = g.queries
                /\ Obs("get_data", g.err, "None", g.calls)
           ELSE LET d == query_data_result(g.queries[index + 1], columns)
                IN  /\ queries' = [g.queries EXCEPT ![index + 1] = d.query]
                    /\ Obs("get_data", d.err, IF d.err = "none" THEN "rows" ELSE "None",
                           g.calls \o d.calls)
    /\ UNCHANGED <<id, last_status, resolution, frameVars, applianceVars,
                   scopeVars, reqs, polled, otherVars>>

\* ------------------------------------------------------------- specification
\* Column arguments of the Report-level requests.
ReportColumnArgs == {None, Some(<<"host">>)}

Next ==
    \/ \E res \in ResolutionArgs, kind \in LocationKinds, sync \in BOOLEAN :
          run(res, kind, sync)
    \/ \E i \in 1..MaxInterval, t \in 0..MaxTimeout : wait_for_complete(i, t)
    \/ wfc_step
    \/ status
    \/ load_queries(None)
    \/ \E index \in 0..(MaxQueries - 1), c \in ReportColumnArgs : get_legend(index, c)
    \/ \E index \in 0..(MaxQueries - 1), c \in ReportColumnArgs : get_data(index, c)
    \/ delete
    \/ enter
    \/ exit
    \/ ApplianceProgress

Spec == Init /\ [][Next]_vars

\* The thread inside wait_for_complete keeps running: an iteration of its
\* loop that can be made is made.  Nothing makes the appliance finish.
FairSpec == Spec /\ WF_vars(wfc_step)

\* ------------------------------------------------------- one Query's requests
\* A completed report with one Query, built with any of these column ids
\* (Report._load_queries hands Query.__init__ None, SingleQueryReport its
\* _column_ids).
ColumnIdArgs == {None, Some(<<>>), Some(<<1>>), Some(<<1, 2>>)}

\* Column arguments of get_data / get_iterdata / get_totals.
ColumnArgs == {None, Some(<<>>), Some(<<"host">>), Some(<<"bytes">>),
               Some(<<"host", "bytes">>)}

DataOps == {"get_data", "get_iterdata", "get_totals"}

\* The column selection a request asks for: the columns given, else the
\* Query's selected columns, else none (all available columns).
Selection(q, columns) ==
    IF Truthy(columns) THEN get_columns(columns[1])
    ELSE IF q.selected_columns # None THEN q.selected_columns[1]
    ELSE <<>>

QInit ==
    /\ id = 1
    /\ last_status = "completed"
    /\ resolution = "auto"
    /\ \E c \in ColumnIdArgs : queries = <<Query(1, c)>>
    /\ pc = "idle"
    /\ complete = TRUE
    /\ elapsed = 0
    /\ timeout = 0
    /\ interval = 1
    /\ turn = 0
    /\ held = {1}
    /\ done = {1}
    /\ nextId = 2
    /\ scope = "none"
    /\ scopeFirst = 1
    /\ reqs = <<>>
    /\ polled = TRUE
    /\ native = NoNative
    /\ wan = NoWan
    /\ sawCompleted = TRUE
    /\ lastOp = "run"
    /\ err = "none"
    /\ ret = "None"
    /\ calls = <<"submit", "status">>

\* Query.get_data / get_iterdata / get_totals (columns): each starts with
\* _get_querydata(columns) (lines 108, 113, 118).
query_request(op, columns) ==
    /\ pc = "idle"
    /\ LET d == query_data_result(queries[1], columns)
           sel == Selection(queries[1], columns)
       IN  /\ queries' = [queries EXCEPT ![1] = d.query]
           /\ reqs' = IF Len(reqs) = 2 THEN <<reqs[2], sel>> ELSE Append(reqs, sel)
           /\ Obs(op, d.err, IF d.err = "none" THEN "rows" ELSE "None", d.calls)
    /\ UNCHANGED <<id, last_status, resolution, frameVars, applianceVars, scopeVars,
                   polled, otherVars>>

QNext == \E op \in DataOps, c \in ColumnArgs : query_request(op, c)

QSpec == QInit /\ [][QNext]_vars

\* =================================================================== claims
\* Error kinds of the specification, as the code raises them.
InvalidArgument == "ValueError"
ProtocolError == "ValueError"
Unassigned == {NoAttr, NoneId}

\* wait_for_complete, called by the user, has returned or raised.
WfcReturned == pc = "idle" /\ lastOp = "wait_for_complete"

\* C1: wait_for_complete on a submitted report (one the appliance holds)
\* raises nothing and returns true exactly when a status poll made while
\* the budget had not elapsed answered completed; otherwise it returns
\* false, also when the budget is spent before the first poll.
C1_WaitForComplete ==
    WfcReturned /\ id \in held =>
        /\ err = "none"
        /\ ret = IF sawCompleted THEN "True" ELSE "False"

\* C1 witness: a first poll answered running, the second completed, and
\* wait_for_complete returned true.
C1_Witness ==
    /\ WfcReturned
    /\ id \in held
    /\ ret = "True"
    /\ calls = <<"status", "status">>

\* C2: of two consecutive requests with the same column selection only
\* the first fetches, a request whose selection differs from the previous
\* one fetches, and so does a Query's first request.
C2_SameSelectionOneFetch ==
    lastOp \in DataOps /\ reqs # <<>> =>
        IF Len(reqs) = 2 /\ reqs[1] = reqs[2]
        THEN calls = <<>>
        ELSE calls = <<"querydata">>

\* C3: run keeps a resolution name unchanged and fails with InvalidArgument
\* for every other resolution value, leaving the resolution as it was.
C3_ResolutionValidated ==
    [][\A res \in ResolutionArgs, kind \in LocationKinds, sync \in BOOLEAN :
          run(res, kind, sync) =>
              IF res \in ValidResolutions
              THEN resolution' = res
              ELSE err' = InvalidArgument /\ resolution' = resolution]_vars

\* C4: delete() on a Report without an assigned id returns without error
\* and issues no remote remove call.
C4_DeleteWithoutId ==
    lastOp = "delete" /\ id \in Unassigned => err = "none" /\ calls = <<>>

\* C5: delete() on a Report whose remote report is already deleted
\* succeeds and does nothing: no remote call, no change at the appliance.
C5_DeleteIdempotent ==
    [][delete /\ id \notin Unassigned /\ id \notin held =>
          err' = "none" /\ calls' = <<>> /\ held' = held]_vars

\* C6: right after the with block is left, the appliance holds none of the
\* reports submitted inside it.
C6_ScopeReleases ==
    lastOp = "exit" => (scopeFirst..(nextId - 1)) \cap held = {}

\* C7: once assigned the report id never changes or is cleared, and the
\* object submits at most one remote report.
C7_IdAssignedOnce ==
    [][(id \notin Unassigned => id' = id) /\ nextId' - 1 <= 1]_vars

\* C8: status() on a never submitted Report returns None without a remote
\* call and without raising; on a submitted Report (held by the appliance)
\* it makes one remote status call, stores the answer and returns it.
C8_Status ==
    lastOp = "status" =>
        IF id \in Unassigned
        THEN err = "none" /\ ret = "None" /\ calls = <<>>
        ELSE id \in held =>
                /\ err = "none"
                /\ calls = <<"status">>
                /\ ret = last_status
                /\ ret \in {"running", "completed"}

\* C9: get_legend, get_data / get_iterdata / get_totals and _load_queries
\* on a Report without an id fail with InvalidArgument and make no remote
\* call.
C9_NoIdInvalidArgument ==
    lastOp \in {"get_legend", "get_data", "load_queries"} /\ id \in Unassigned =>
        err = InvalidArgument /\ calls = <<>>

\* C10: when the Location of the submission response is missing or does
\* not end in reports/<digits>, run fails with ProtocolError, the id stays
\* unassigned and no status poll is made.
C10_BadLocation ==
    [][\A res \in ResolutionArgs \cap ValidResolutions,
          kind \in {"missing", "nodigits"}, sync \in BOOLEAN :
          run(res, kind, sync) =>
              /\ err' = ProtocolError
              /\ id' = NoneId
              /\ pc' = "idle"
              /\ calls' = <<"submit">>]_vars

\* The values of a sequence.
Range(f) == {f[k] : k \in DOMAIN f}

\* C11: no status poll is issued for a report that was not submitted, and
\* no query list or query data is fetched before a status poll of the
\* report was issued.
C11_CallOrder ==
    /\ "status" \in Range(calls) => id \in 1..(nextId - 1)
    /\ lastOp \in {"get_data", "get_legend", "load_queries"} /\ calls # <<>> => polled

\* C12: after a successful delete() the Report's query list is empty, and
\* a get_data / get_legend on the deleted Report does not answer from a
\* Query that was loaded before.
C12_QueriesDiscarded ==
    /\ lastOp = "delete" /\ err = "none" /\ calls = <<"delete">> => queries = <<>>
    /\ lastOp \in {"get_data", "get_legend"} /\ id \notin Unassigned /\ id \notin held
          => err # "none"

\* ============================================================ Query._to_native
\* Columns of the legend and row that is coerced.
MaxCols == 2

\* A value of a row: a string as the appliance sends it, or the Python
\* number a coercion made of it (floats in tenths).
PyStr(x) == [t |-> "str", s |-> x, n |-> 0]
PyInt(k) == [t |-> "int", s |-> "", n |-> k]
PyFloat(tenths) == [t |-> "float", s |-> "", n |-> tenths]

\* The cells tried: an integer, a decimal, a word and an empty cell.
Cells == {"3", "2.5", "abc", ""}
IntOf == ("3" :> 3)
FloatOf == ("3" :> 30) @@ ("2.5" :> 25)

ColumnTypes == {"int", "float", "reltime", "string"}

\* int(x): [err, value].  int of a float truncates.
py_int(x) ==
    IF x.t = "str"
    THEN IF x.s \in DOMAIN IntOf
         THEN [err |-> "none", value |-> PyInt(IntOf[x.s])]
         ELSE [err |-> "ValueError", value |-> x]
    ELSE IF x.t = "float" THEN [err |-> "none", value |-> PyInt(x.n \div 10)]
    ELSE [err |-> "none", value |-> x]

\* float(x): [err, value].
py_float(x) ==
    IF x.t = "str"
    THEN IF x.s \in DOMAIN FloatOf
         THEN [err |-> "none", value |-> PyFloat(FloatOf[x.s])]
         ELSE [err |-> "ValueError", value |-> x]
    ELSE IF x.t = "int" THEN [err |-> "none", value |-> PyFloat(x.n * 10)]
    ELSE [err |-> "none", value |-> x]

\* `type in 'reltime'` of line 70 is a substring test.
in_reltime(type) == type \in {"", "reltime", "rel", "time"}

\* Line 68: row[i] = int(x), outside any try.
coerce_int(x) == py_int(x)

\* Lines 71-74: row[i] = float(x), a ValueError is passed over.
coerce_float(x) ==
    [err |-> "none", value |-> py_float(x).value]

\* Lines 67-74 for one value.
coerce(type, x) ==
    IF type = "int" THEN coerce_int(x)
    ELSE IF type = "float" \/ in_reltime(type) THEN coerce_float(x)
    ELSE [err |-> "none", value |-> x]

\* Query._to_native(row) with the legend get_legend() returns: the row is
\* changed in place from position i on, up to the first exception.
RECURSIVE to_native_from(_, _, _)
to_native_from(legend, row, i) ==
    IF i > Len(row) THEN [err |-> "none", row |-> row]
    ELSE IF i > Len(legend) THEN [err |-> "IndexError", row |-> row]
    ELSE LET c == coerce(legend[i], row[i])
         IN  IF c.err # "none" THEN [err |-> c.err, row |-> row]
             ELSE to_native_from(legend, [row EXCEPT ![i] = c.value], i + 1)

to_native(legend, row) == to_native_from(legend, row, 1)

Legends == UNION {[1..k -> ColumnTypes] : k \in 1..MaxCols}
RowsOf(k) == [1..k -> {PyStr(c) : c \in Cells}]

\* A row as the appliance sent it, with the legend of its columns.
NInit ==
    /\ id = NoAttr
    /\ last_status = "noattr"
    /\ resolution = "None"
    /\ queries = <<>>
    /\ pc = "idle"
    /\ complete = FALSE
    /\ elapsed = 0
    /\ timeout = 0
    /\ interval = 1
    /\ turn = 0
    /\ held = {}
    /\ done = {}
    /\ nextId = 1
    /\ scope = "none"
    /\ scopeFirst = 1
    /\ reqs = <<>>
    /\ polled = FALSE
    /\ wan = NoWan
    /\ sawCompleted = FALSE
    /\ lastOp = "init"
    /\ err = "none"
    /\ ret = "None"
    /\ calls = <<>>
    /\ \E l \in Legends : \E r \in RowsOf(Len(l)) :
          native = [legend |-> l, row |-> r, out |-> r, coerced |-> FALSE]

\* Query._to_native(row)
to_native_row ==
    /\ native # NoNative
    /\ ~native.coerced
    /\ LET c == to_native(native.legend, native.row)
       IN  /\ native' = [native EXCEPT !.out = c.row, !.coerced = TRUE]
           /\ Obs("to_native", c.err, IF c.err = "none" THEN "row" ELSE "None", <<>>)
    /\ UNCHANGED <<reportVars, frameVars, applianceVars, scopeVars, reqs, polled, wan>>

NNext == to_native_row

NSpec == NInit /\ [][NNext]_vars

\* ============================================================ WANSummaryReport
\* Calls of WANSummaryReport.run in one behaviour.
MaxWanRuns == 2

\* A column key is the sequence of its pieces: the pieces "in_" and "out_"
\* and fragments that hold neither, so "in_min_bytes" is
\* <<"in_", "m", "in_", "bytes">>.
host == <<"host">>
rtt == <<"rtt">>
bytes == <<"bytes">>
in_bytes == <<"in_", "bytes">>
out_bytes == <<"out_", "bytes">>
in_min_bytes == <<"in_", "m", "in_", "bytes">>
out_min_bytes == <<"out_", "m", "in_", "bytes">>

\* profiler.search_columns([realm], [centricity], [groupby]): the keys of the
\* catalog's columns.
search_columns(realm, centricity, groupby) ==
    IF realm = "traffic_summary" /\ centricity = "int" /\ groupby = "ifc"
    THEN {host, rtt, bytes, in_bytes, out_bytes, in_min_bytes, out_min_bytes}
    ELSE {}

\* Column.iskey
iskey(key) == key = host

\* name.startswith(prefix), for the prefixes "in_" and "out_".
startswith(name, prefix) == name # <<>> /\ name[1] = prefix

\* name.replace(old, new): every occurrence is replaced.
replace(name, old, new) ==
    [k \in DOMAIN name |-> IF name[k] = old THEN new ELSE name[k]]

\* Lines 658-661: the key without a leading in_ or out_.
canonical(key) ==
    IF startswith(key, "in_") \/ startswith(key, "out_") THEN Tail(key) ELSE key

\* Lines 656-674 from column i on.
RECURSIVE convert_from(_, _, _, _, _)
convert_from(columns, i, seen, result, keys) ==
    IF i > Len(columns) THEN result
    ELSE LET c == columns[i]
             key == canonical(c)
             in_key == <<"in_">> \o key
             out_key == <<"out_">> \o key
         IN  IF key \in seen
             THEN convert_from(columns, i + 1, seen, result, keys)
             ELSE convert_from(columns, i + 1, seen \cup {key},
                               IF in_key \in keys /\ out_key \in keys
                               THEN result \o <<in_key, out_key>>
                               ELSE Append(result, c),
                               keys)

\* The requested columns taken as they are.
convert_columns_asis(columns, realm, centricity, groupby) == columns

\* WANSummaryReport._convert_columns: the new self.columns.
convert_columns(columns, realm, centricity, groupby) ==
    convert_from(columns, 1, {}, <<>>, search_columns(realm, centricity, groupby))

\* ---------------------------------------------------------------- data frames
\* The interfaces tried and the hosts the appliance has rows for on each.
Interfaces == {"eth0", "eth1"}
HostsOf(interface) == IF interface = "eth0" THEN {"X", "Y"} ELSE {"Y", "Z"}

\* The value the appliance reports in column `key` of the row of host h for
\* an interface; a key column's value names the host on either interface.
Cell(interface, h, key) ==
    [interface |-> IF iskey(key) THEN "" ELSE interface, host |-> h, key |-> key]

\* The elements of s at the positions where flags holds.
RECURSIVE Pick(_, _)
Pick(s, flags) ==
    IF s = <<>> THEN <<>>
    ELSE (IF Head(flags) THEN <<Head(s)>> ELSE <<>>) \o Pick(Tail(s), Tail(flags))

\* pd.DataFrame.from_records(data, columns=names): the rows of data, their
\* positions named by names.
from_records(data, names) ==
    [index |-> <<>>,
     columns |-> names,
     rows |-> {[key |-> <<>>,
                values |-> [j \in DOMAIN data.columns |->
                               Cell(data.interface, h, data.columns[j])]] :
               h \in HostsOf(data.interface)}]

\* df.set_index(keys, inplace=True)
set_index(df, keys) ==
    LET isk == [j \in DOMAIN df.columns |-> df.columns[j] \in Range(keys)]
        notk == [j \in DOMAIN df.columns |-> ~isk[j]]
    IN  [index |-> keys,
         columns |-> Pick(df.columns, notk),
         rows |-> {[key |-> Pick(r.values, isk), values |-> Pick(r.values, notk)] :
                   r \in df.rows}]

\* df.ix[:, flags]
ix(df, flags) ==
    [df EXCEPT !.columns = Pick(@, flags),
               !.rows = {[r EXCEPT !.values = Pick(@, flags)] : r \in df.rows}]

\* df.rename(columns=lambda n: n.replace(old, new), inplace=True)
rename(df, old, new) ==
    [df EXCEPT !.columns = [j \in DOMAIN @ |-> replace(@[j], old, new)]]

\* A join that keeps every row of the left table.
join_left(l, r) ==
    [index |-> l.index,
     columns |-> l.columns \o r.columns,
     rows |-> {[key |-> a.key, values |-> a.values] : a \in l.rows}]

\* l.join(r, how='inner'): the rows whose index value is in both tables.
join(l, r) ==
    [index |-> l.index,
     columns |-> l.columns \o r.columns,
     rows |-> {[key |-> p[1].key, values |-> p[1].values \o p[2].values] :
               p \in {q \in l.rows \X r.rows : q[1].key = q[2].key}}]

\* Lines 601-603 over df.keys().
in_flags(df) == [j \in DOMAIN df.columns |-> startswith(df.columns[j], "in_")]
out_flags(df) == [j \in DOMAIN df.columns |-> startswith(df.columns[j], "out_")]
key_flags(df) == [j \in DOMAIN df.columns |-> ~in_flags(df)[j] /\ ~out_flags(df)[j]]
or_flags(f, g) == [j \in DOMAIN f |-> f[j] \/ g[j]]

Directions == {"inbound", "outbound", "sideways"}

\* Lines 591-628 with both data sets present: the exception and the tables
\* self.lan_columns, self.wan_columns and self.table.
merge(lan_data, wan_data, columns, direction) ==
    LET key_columns == SelectSeq(columns, iskey)
        df_lan == set_index(from_records(lan_data, columns), key_columns)
        df_wan == set_index(from_records(wan_data, columns), key_columns)
        lan_columns ==
            IF direction = "inbound"
            THEN rename(ix(df_lan, or_flags(key_flags(df_lan), out_flags(df_lan))),
                        "out_", "LAN_")
            ELSE rename(ix(df_lan, or_flags(key_flags(df_lan), in_flags(df_lan))),
                        "in_", "LAN_")
        wan_columns ==
            IF direction = "inbound"
            THEN rename(ix(df_wan, in_flags(df_lan)), "in_", "WAN_")
            ELSE rename(ix(df_wan, out_flags(df_lan)), "out_", "WAN_")
    IN  IF direction \notin {"inbound", "outbound"}
        THEN [err |-> "RvbdException", lan_columns |-> None, wan_columns |-> None,
              table |-> None]
        ELSE IF Range(lan_columns.columns) \cap Range(wan_columns.columns) # {}
        THEN [err |-> "ValueError", lan_columns |-> Some(lan_columns),
              wan_columns |-> Some(wan_columns), table |-> None]
        ELSE [err |-> "none", lan_columns |-> Some(lan_columns),
              wan_columns |-> Some(wan_columns),
              table |-> Some(join(lan_columns, wan_columns))]

\* ------------------------------------------------------- WANSummaryReport.run
\* Arguments tried.  Every column list names the key column; the lists ask
\* for a directional pair by its bare key, by both directional keys, by one
\* directional key that holds "in_" twice, and together with a column that
\* is neither a key nor directional.
Timefilters == {"last 1 h", "last 2 h"}
WanColumnArgs ==
    {<<host, bytes>>, <<host, in_bytes, out_bytes>>, <<host, in_min_bytes>>,
     <<host, rtt, bytes>>}

\* What becomes of the sub-reports of a call that runs them: both complete,
\* or the submission of the WAN or of the LAN report is answered by an error.
Fates == {"ok", "wan_fails", "lan_fails"}

\* Python truth of a string or None.
truthy(x) == x # "None" /\ x # ""

\* A cache test that looks at the time filter alone.
cache_hit_timefilter(w, timefilter, columns) ==
    truthy(w._timefilter) /\ w._timefilter = timefilter

\* Lines 573-574: the condition under which the sub-reports are not run.
cache_hit(w, timefilter, columns) ==
    truthy(w._timefilter) /\ w._timefilter = timefilter /\ w._columns = Some(columns)

\* WANSummaryReport.__init__; the fields run assigns later are None.  The
\* fields direction, timefilter, requested, submitted, message and runs
\* record the arguments and the outcome of the last call of run.
WInit ==
    /\ id = NoAttr
    /\ last_status = "noattr"
    /\ resolution = "None"
    /\ queries = <<>>
    /\ pc = "idle"
    /\ complete = FALSE
    /\ elapsed = 0
    /\ timeout = 0
    /\ interval = 1
    /\ turn = 0
    /\ held = {}
    /\ done = {}
    /\ nextId = 1
    /\ scope = "none"
    /\ scopeFirst = 1
    /\ reqs = <<>>
    /\ polled = FALSE
    /\ native = NoNative
    /\ wan = [_timefilter |-> "None", _columns |-> None,
              _wan_data |-> None, _lan_data |-> None,
              realm |-> "traffic_summary", centricity |-> "int",
              groupby |-> "None", columns |-> None,
              lan_columns |-> None, wan_columns |-> None, table |-> None,
              _legend |-> None,
              direction |-> "None", timefilter |-> "None", requested |-> None,
              submitted |-> 0, message |-> "None", runs |-> 0]
    /\ sawCompleted = FALSE
    /\ lastOp = "init"
    /\ err = "none"
    /\ ret = "None"
    /\ calls = <<>>

\* Lines 581-586: the two sub-reports, as the number of reports the
\* appliance created for them.
sub_reports(fate) ==
    CASE fate = "wan_fails" -> 0
      [] fate = "lan_fails" -> 1
      [] OTHER -> 2

\* The remote calls of one sub-report that completes: Report.run with
\* sync, then get_data.
one_sub == <<"submit", "status", "queries", "querydata">>

\* The remote calls of n sub-reports that complete, then of one whose
\* submission fails if failed holds, as the saturating record keeps them.
sub_calls(n, failed) ==
    LET cs == (IF n = 0 THEN <<>> ELSE IF n = 1 THEN one_sub ELSE one_sub \o one_sub)
              \o (IF failed THEN <<"submit">> ELSE <<>>)
    IN  SubSeq(cs, 1, IF Len(cs) < MaxCalls THEN Len(cs) ELSE MaxCalls)

\* What _get_data returned for a sub-report on an interface.
sub_data(interface, columns) == [interface |-> interface, columns |-> columns]

\* Lines 569-628 of run for a column list.
run_converted(lan_interface, wan_interface, direction, columns, timefilter, fate) ==
    LET cols == convert_columns(columns, wan.realm, wan.centricity, "ifc")
        hit == cache_hit(wan, timefilter, cols)
        n == IF hit THEN 0 ELSE sub_reports(fate)
        failed == ~hit /\ fate # "ok"
        wan_data == IF ~hit /\ fate # "wan_fails"
                    THEN Some(sub_data(wan_interface, cols)) ELSE wan._wan_data
        lan_data == IF ~hit /\ fate = "ok"
                    THEN Some(sub_data(lan_interface, cols)) ELSE wan._lan_data
        \* lines 567-586
        w == [wan EXCEPT !.groupby = "ifc", !.columns = Some(cols),
                         !._timefilter = IF hit THEN @ ELSE timefilter,
                         !._columns = IF hit THEN @ ELSE Some(cols),
                         !._wan_data = wan_data, !._lan_data = lan_data,
                         !.direction = direction, !.timefilter = timefilter,
                         !.requested = Some(columns), !.submitted = n,
                         !.message = "None", !.runs = @ + 1]
    IN  /\ held' = held \cup (nextId..(nextId + n - 1))
        /\ done' = done \cup (nextId..(nextId + n - 1))
        /\ nextId' = nextId + n
        /\ IF hit
           THEN UNCHANGED <<id, last_status, resolution, queries, polled>>
           ELSE /\ resolution' = "15min"
                /\ id' = IF failed THEN NoneId ELSE nextId + 1
                /\ last_status' = IF failed THEN "None" ELSE "completed"
                /\ polled' = ~failed
                /\ queries' = IF failed THEN <<>>
                              ELSE <<[id |-> nextId + 1,
                                      selected_columns |-> Some(cols),
                                      data_selected_columns |-> Some(cols)]>>
        /\ IF failed
           THEN /\ wan' = w
                /\ Obs("wan_run", "HTTPError", "None", sub_calls(n, TRUE))
           ELSE IF lan_data = None \/ wan_data = None
           THEN \* from_records(None, ...)
                /\ wan' = w
                /\ Obs("wan_run", "TypeError", "None", sub_calls(n, FALSE))
           ELSE LET m == merge(lan_data[1], wan_data[1], cols, direction)
                IN  /\ wan' = [w EXCEPT
                           !.lan_columns = IF m.lan_columns = None THEN @
                                           ELSE m.lan_columns,
                           !.wan_columns = IF m.wan_columns = None THEN @
                                           ELSE m.wan_columns,
                           !.table = IF m.table = None THEN @ ELSE m.table,
                           !._legend = IF m.table = None THEN @
                                       ELSE Some(m.table[1].index \o m.table[1].columns),
                           !.message = IF m.err = "RvbdException" THEN direction
                                       ELSE "None"]
                    /\ Obs("wan_run", m.err, "None", sub_calls(n, FALSE))

\* WANSummaryReport.run(lan_interface, wan_interface, direction, columns,
\* timefilter) with the default groupby, resolution and sync; columns is
\* None, the default, or Some list.  With None the loop of line 656 raises.
wan_run(lan_interface, wan_interface, direction, columns, timefilter, fate) ==
    /\ wan # NoWan
    /\ wan.runs < MaxWanRuns
    /\ IF columns = None
       THEN /\ wan' = [wan EXCEPT !.groupby = "ifc", !.columns = None,
                                  !.direction = direction, !.timefilter = timefilter,
                                  !.requested = None, !.submitted = 0,
                                  !.message = "None", !.runs = @ + 1]
            /\ Obs("wan_run", "TypeError", "None", <<>>)
            /\ UNCHANGED <<reportVars, applianceVars, polled>>
       ELSE run_converted(lan_interface, wan_interface, direction, columns[1],
                          timefilter, fate)
    /\ UNCHANGED <<frameVars, scopeVars, reqs, native>>

WNext ==
    \E lan_interface \in Interfaces, wan_interface \in Interfaces,
       direction \in Directions, columns \in {None} \cup {Some(c) : c \in WanColumnArgs},
       timefilter \in Timefilters, fate \in Fates :
          wan_run(lan_interface, wan_interface, direction, columns, timefilter, fate)

WSpec == WInit /\ [][WNext]_vars

\* C13: after a row is coerced, every int column holds an integer where the
\* cell was one, every float or reltime column holds a float where the cell
\* was numeric, every other column and every non-numeric cell of an int,
\* float or reltime column is as the appliance sent it, and nothing is raised.
C13_Coercion ==
    native # NoNative /\ native.coerced =>
        /\ err = "none"
        /\ \A i \in DOMAIN native.row :
              LET type == native.legend[i]
                  x == native.row[i]
                  y == native.out[i]
              IN  /\ type = "int" /\ x.s \in DOMAIN IntOf => y = PyInt(IntOf[x.s])
                  /\ type \in {"float", "reltime"} /\ x.s \in DOMAIN FloatOf
                        => y = PyFloat(FloatOf[x.s])
                  /\ type \in {"int", "float", "reltime"} /\ x.s \notin DOMAIN FloatOf
                        => y = x
                  /\ type \notin {"int", "float", "reltime"} => y = x

\* ------------------------------------------------------------ claims, WanMerge
DomainError == "RvbdException"

\* The last call of run returned a merged table.
Merged == wan # NoWan /\ lastOp = "wan_run" /\ err = "none"

\* The prefixes of the source columns a direction takes from the LAN and
\* from the WAN data set.
LanSource(direction) == IF direction = "inbound" THEN "out_" ELSE "in_"
WanSource(direction) == IF direction = "inbound" THEN "in_" ELSE "out_"

\* Column `name` of table t holds, in every row, the values the appliance
\* reported for column `key` on the interface of `data`.
Carries(t, name, data, key) ==
    \E j \in DOMAIN t.columns :
       /\ t.columns[j] = name
       /\ \A r \in t.rows :
             r.values[j] = Cell(data.interface, r.key[1].host, key)

\* C14: in a merged table the columns named LAN_ or WAN_ are exactly
\* LAN_<k> for every <p>_<k> column of the LAN data set and WAN_<k> for every
\* <q>_<k> column of the WAN data set, p = out and q = in for inbound, p = in
\* and q = out for outbound; each of them carries its source column's values.
C14_DirectionalRenaming ==
    Merged =>
        LET t == wan.table[1]
            lan == wan._lan_data[1]
            was == wan._wan_data[1]
            lan_keys == {c \in Range(lan.columns) :
                            startswith(c, LanSource(wan.direction))}
            wan_keys == {c \in Range(was.columns) :
                            startswith(c, WanSource(wan.direction))}
        IN  /\ {c \in Range(t.columns) : startswith(c, "LAN_") \/ startswith(c, "WAN_")}
                  = {<<"LAN_">> \o Tail(c) : c \in lan_keys}
                       \cup {<<"WAN_">> \o Tail(c) : c \in wan_keys}
            /\ \A c \in lan_keys : Carries(t, <<"LAN_">> \o Tail(c), lan, c)
            /\ \A c \in wan_keys : Carries(t, <<"WAN_">> \o Tail(c), was, c)

\* C15: a call of run with a direction other than inbound and outbound
\* raises the domain error, whose message names the direction.
C15_InvalidDirection ==
    wan # NoWan /\ lastOp = "wan_run" /\ wan.direction \notin {"inbound", "outbound"}
        => err = DomainError /\ wan.message = wan.direction

\* C16: a call of run with an invalid direction submits no remote report and
\* leaves the cached time filter, column list and data sets as they were.
C16_InvalidDirectionFirst ==
    [][wan # NoWan /\ wan'.runs # wan.runs
          /\ wan'.direction \notin {"inbound", "outbound"}
       => /\ nextId' = nextId
          /\ wan'._timefilter = wan._timefilter
          /\ wan'._columns = wan._columns
          /\ wan'._wan_data = wan._wan_data
          /\ wan'._lan_data = wan._lan_data]_vars

KeysOf(t) == {r.key : r \in t.rows}

\* C18: the index values of the merged table are those that are index
\* values of both the reduced LAN table and the reduced WAN table.
C18_InnerJoin ==
    Merged => KeysOf(wan.table[1])
                 = KeysOf(wan.lan_columns[1]) \cap KeysOf(wan.wan_columns[1])

\* A merge that kept a row and dropped a row of either side.
C18_Witness ==
    /\ Merged
    /\ KeysOf(wan.table[1]) # {}
    /\ KeysOf(wan.lan_columns[1]) \ KeysOf(wan.table[1]) # {}
    /\ KeysOf(wan.wan_columns[1]) \ KeysOf(wan.table[1]) # {}

\* The position of the first requested column with canonical key k.
FirstAt(columns, k) ==
    CHOOSE i \in DOMAIN columns :
       /\ canonical(columns[i]) = k
       /\ \A j \in 1..(i - 1) : canonical(columns[j]) # k

\* What canonical key k contributes: both directional columns when the
\* catalog holds both, else the column first requested for k.
Contribution(columns, k, keys) ==
    IF <<"in_">> \o k \in keys /\ <<"out_">> \o k \in keys
    THEN {<<"in_">> \o k, <<"out_">> \o k}
    ELSE {columns[FirstAt(columns, k)]}

\* C19: the normalized list holds, for every canonical key of the requested
\* list and for no other, the key's contribution once, the keys in the order
\* of their first request.
C19_Normalized ==
    wan # NoWan /\ wan.requested # None /\ wan.columns # None =>
        LET req == wan.requested[1]
            out == wan.columns[1]
            keys == search_columns(wan.realm, wan.centricity, wan.groupby)
            At(k) == {j \in DOMAIN out : canonical(out[j]) = k}
        IN  /\ \A k \in {canonical(c) : c \in Range(req)} :
                  /\ {out[j] : j \in At(k)} = Contribution(req, k, keys)
                  /\ Cardinality(At(k)) = Cardinality(Contribution(req, k, keys))
            /\ \A j \in DOMAIN out : canonical(out[j]) \in {canonical(c) : c \in Range(req)}
            /\ \A i, j \in DOMAIN out :
                  i < j => FirstAt(req, canonical(out[i])) <= FirstAt(req, canonical(out[j]))

\* A request that names a canonical key twice and a column that stays as
\* requested.
C19_Witness ==
    /\ wan # NoWan
    /\ wan.requested = Some(<<host, in_bytes, out_bytes>>)
    /\ wan.columns = Some(<<host, in_bytes, out_bytes>>)
    /\ lastOp = "wan_run"

\* C20: the columns of a merged table that are not LAN_ or WAN_ columns, its
\* index included, are the is_key columns of the normalized list.
C20_KeyColumns ==
    Merged =>
        LET t == wan.table[1]
        IN  Range(t.index)
               \cup {c \in Range(t.columns) :
                        ~startswith(c, "LAN_") /\ ~startswith(c, "WAN_")}
            = {c \in Range(wan.columns[1]) : iskey(c)}

\* ------------------------------------------------------------ claims, timing
\* C21: a call of wait_for_complete returns: whenever the thread is inside
\* its loop it is later outside of it, also when the appliance never
\* reports the report completed.
C21_Terminates == (pc = "wfc") ~> (pc = "idle")

\* ==================================================== Query data, row by row
\* Columns are named by their types here.  The columns the appliance
\* computed for the query, in its order.
AvailableColumns == <<"string", "int", "float">>

\* selected_columns of the Query, and the columns argument of a request.
SelectedArgs == {None} \cup {Some(l) : l \in Legends}

\* Query.get_legend(columns), lines 57-62, with the descriptors as types.
query_legend(selected, available, columns) ==
    IF Truthy(columns) THEN columns[1]
    ELSE IF Truthy(selected) THEN selected[1]
    ELSE available

\* Lines 80-83 and 90-100: the columns whose values the appliance sends;
\* without a selection it sends those it computed.
fetched_columns(selected, available, columns) ==
    IF Truthy(columns) THEN columns[1]
    ELSE IF selected # None /\ selected[1] # <<>> THEN selected[1]
    ELSE available

\* The cells the appliance sends in a column of a type.
CellsOf(type) ==
    CASE type = "int" -> {"3"}
      [] type \in {"float", "reltime"} -> {"3", "2.5"}
      [] OTHER -> {"abc", ""}

\* The rows the appliance sends for a list of columns.
RowsFor(columns) ==
    {r \in RowsOf(Len(columns)) : \A j \in DOMAIN r : r[j].s \in CellsOf(columns[j])}

\* A Query with its selected columns; no data requested yet.
DInit ==
    /\ id = NoAttr
    /\ last_status = "noattr"
    /\ resolution = "None"
    /\ queries = <<>>
    /\ pc = "idle"
    /\ complete = FALSE
    /\ elapsed = 0
    /\ timeout = 0
    /\ interval = 1
    /\ turn = 0
    /\ held = {}
    /\ done = {}
    /\ nextId = 1
    /\ scope = "none"
    /\ scopeFirst = 1
    /\ reqs = <<>>
    /\ polled = FALSE
    /\ wan = NoWan
    /\ sawCompleted = FALSE
    /\ lastOp = "init"
    /\ err = "none"
    /\ ret = "None"
    /\ calls = <<>>
    /\ \E sel \in SelectedArgs :
          native = [selected |-> sel, available |-> AvailableColumns,
                    columns |-> None, fetched |-> <<>>, legend |-> <<>>,
                    row |-> <<>>, out |-> <<>>, coerced |-> FALSE]

\* Query.get_data(columns) on a query of one row: _get_querydata(columns),
\* then _to_native(row), whose legend is get_legend() without columns
\* (line 65).
query_get_data(columns) ==
    /\ native # NoNative
    /\ ~native.coerced
    /\ LET fetched == fetched_columns(native.selected, native.available, columns)
           legend == query_legend(native.selected, native.available, None)
       IN  \E row \in RowsFor(fetched) :
              LET c == to_native(legend, row)
              IN  /\ native' = [native EXCEPT !.columns = columns, !.fetched = fetched,
                                              !.legend = legend, !.row = row,
                                              !.out = c.row, !.coerced = TRUE]
                  /\ Obs("get_data", c.err, IF c.err = "none" THEN "rows" ELSE "None",
                         <<"querydata">>)
    /\ UNCHANGED <<reportVars, frameVars, applianceVars, scopeVars, reqs, polled, wan>>

DNext == \E columns \in SelectedArgs : query_get_data(columns)

DSpec == DInit /\ [][DNext]_vars

\* C22: a request with an explicit column list returns each value coerced
\* by the type of the column at its position in that list, and raises
\* nothing.
C22_FetchedLegend ==
    native # NoNative /\ native.coerced /\ Truthy(native.columns) =>
        /\ err = "none"
        /\ \A j \in DOMAIN native.row :
              native.out[j] = coerce(native.fetched[j], native.row[j]).value

\* ------------------------------------------------- claims, WanMerge cache
\* C23: a call of run that returns a table after calls that all returned
\* one leaves, as the data sets the table is built from, those fetched for
\* the lan_interface and the wan_interface it was called with.
C23_DataOfThisCall ==
    [][\A lan_interface \in Interfaces, wan_interface \in Interfaces :
          /\ wan # NoWan
          /\ lastOp = "init" \/ err = "none"
          /\ wan_run(lan_interface, wan_interface, wan'.direction, wan'.requested,
                     wan'.timefilter, "ok")
          /\ err' = "none"
          => /\ wan'._lan_data[1].interface = lan_interface
             /\ wan'._wan_data[1].interface = wan_interface]_vars

\* C24: a call of run that follows one that failed in a sub-report, and has
\* its time filter and normalized columns, runs both sub-reports again,
\* unless the appliance answers a submission by an error again.
C24_FailedRunNotCached ==
    [][/\ wan # NoWan
       /\ lastOp = "wan_run" /\ err = "HTTPError"
       /\ wan'.runs = wan.runs + 1
       /\ wan'.timefilter = wan.timefilter
       /\ wan'.columns = wan.columns
       /\ err' # "HTTPError"
       => nextId' = nextId + 2]_vars

\* C25: when delete() has returned, the appliance holds none of the
\* reports this Report object created.
C25_NoLeak ==
    lastOp = "delete" /\ err = "none" => held = {}


====
